---- MODULE Spec2Model ----
(***************************************************************************)
(* Model of models/export.py: load_model (checkpoint resolution, optional  *)
(* sparsification recipe, strict weight load) and the export script        *)
(* (export-mode update, dry run, TorchScript / ONNX / CoreML exports).     *)
(* The script is single threaded; pc is its position.  Calls into          *)
(* collaborators (download, torch.load, tracing, serializers, ...) either  *)
(* return or raise; which one is chosen nondeterministically.              *)
(***************************************************************************)
EXTENDS Integers, Sequences, FiniteSets, TLC

VARIABLES
    argv,        \* the command line as typed (never changes)
    opt,         \* parsed command line (export.py:59-68); img_size is rewritten
    ckpt,        \* content of the weights file, as torch.load returns it
    pc,          \* position of the script
    err,         \* exception that escaped to top level, "none" if none
    model,       \* the variable `model` of load_model / __main__
    state_dict,  \* the variable `state_dict` of load_model
    y,           \* result of the dry run, model(img)
    ts,          \* the variable `ts`: "unbound" or "traced"
    results,     \* the success / failure lines printed by the three try blocks
    files,       \* files the export blocks wrote or read back
    log,         \* calls into collaborators, in the order they were made
    onnx_call    \* arguments of the torch.onnx.export call, if it was made

vars == <<argv, opt, ckpt, pc, err, model, state_dict, y, ts, results, files, log, onnx_call>>

----------------------------------------------------------------------------
(* Bounds of the model *)

MaxShape == 2    \* tensor shapes are 1..MaxShape
MaxVal == 1      \* checkpoint tensor values are 1..MaxVal; 0 is a fresh parameter
MaxPathLen == 3  \* a weights path has 1..MaxPathLen tokens
MaxImg == 3      \* image sizes on the command line are 1..MaxImg
MaxStride == 2   \* the model's largest stride is 1..MaxStride
MaxModules == 2  \* a model has 1..MaxModules modules before its detection head

----------------------------------------------------------------------------
(* Tensors and weight mappings *)

ParamNames == {"conv.weight", "detect.bias"}
QuantNames == {"conv.quant.scale"}
Shapes == 1..MaxShape
Vals == 1..MaxVal
DTypes == {"half", "float"}

Tensor(v, s, d) == [val |-> v, shape |-> s, dtype |-> d]

EmptyMapping == [n \in {} |-> Tensor(0, 1, "float")]

\* every weight mapping a checkpoint of dtype d can hold: some of the layer
\* parameters and, for a checkpoint saved from a quantized module, the
\* observer state (of shape 1)
Mappings(d) ==
    UNION {{m \in [D \cup Q -> {Tensor(v, s, d) : v \in Vals, s \in Shapes}] :
                \A n \in Q : m[n].shape = 1} :
             D \in (SUBSET ParamNames) \ {{}}, Q \in SUBSET QuantNames}

\* an architecture config fixes the parameter names and their shapes
Archs == UNION {[D -> Shapes] : D \in (SUBSET ParamNames) \ {{}}}

NoArch == [n \in {} |-> 1]

\* Module.float(): every tensor is cast to full precision
Float(m) == [n \in DOMAIN m |-> [m[n] EXCEPT !.dtype = "float"]]

\* Model(cfg): a fresh module with the config's parameters, not yet loaded
FreshParams(arch) == [n \in DOMAIN arch |-> Tensor(0, arch[n], "float")]

\* names, shapes and values agree (precision aside)
SameWeights(a, b) ==
    /\ DOMAIN a = DOMAIN b
    /\ \A n \in DOMAIN a : a[n].val = b[n].val /\ a[n].shape = b[n].shape

----------------------------------------------------------------------------
(* Log helpers *)

InLog(e) == \E i \in DOMAIN log : log[i] = e

----------------------------------------------------------------------------
(* Command line and checkpoint *)

Recipes == {"", "prune.yaml", "quant.yaml"}

\* A path is a sequence of tokens: a name without '.pt' in it ("w", "model"),
\* the separator "/" and the substring ".pt".  The last token of a file's
\* path is not the separator.
PathTokens == {"w", "model", "/", ".pt"}

Paths ==
    {p \in UNION {[1..n -> PathTokens] : n \in 1..MaxPathLen} : p[Len(p)] # "/"}

\* a directory, a name and the extension, like the default './yolov3.pt' (line 60)
DefaultWeights == <<"w", "/", "w", ".pt">>

\* line 61: default=[640, 640]
DefaultImgSize == <<640, 640>>

\* --img-size takes one or more integers (nargs='+', line 61)
ImgSizes == UNION {[1..n -> 1..MaxImg] : n \in 1..3}

\* A module of the model: its class, the activation it holds in .act, the
\* export attribute and whether its _non_persistent_buffers_set was reset
Module(t, a) == [type |-> t, act |-> a, export |-> FALSE, npb_reset |-> FALSE]

Activations == {"nn.Hardswish", "nn.SiLU", "nn.LeakyReLU", "none"}

BodyModules == {Module(t, a) : t \in {"Conv", "Other"}, a \in Activations}

Detect == Module("Detect", "none")

\* every module list: some modules and the detection head last
ModuleLists ==
    {b \o <<Detect>> : b \in UNION {[1..n -> BodyModules] : n \in 1..MaxModules}}

DefaultNet == [modules |-> <<Module("Conv", "nn.SiLU"), Detect>>, stride |-> 32]

NoNet == [modules |-> <<>>, stride |-> 1]

Cfgs(nets) ==
    {[given |-> FALSE, arch |-> NoArch, net |-> NoNet]}
        \cup {[given |-> TRUE, arch |-> a, net |-> n] : a \in Archs, n \in nets}

Opts ==
    [weights : {DefaultWeights},
     img_size : {DefaultImgSize},
     cfg : Cfgs({DefaultNet}),
     sparseml_recipe : Recipes,
     grid : BOOLEAN,
     dynamic : BOOLEAN]

Ckpts ==
    UNION {[kind : {"module", "raw"}, params : Mappings(d), net : {DefaultNet}] :
             d \in DTypes}

NoModel == [params |-> EmptyMapping, src |-> "none", rewritten |-> FALSE,
            net |-> NoNet]

NoCall == [called |-> FALSE, input_names |-> <<>>, output_names |-> <<>>,
           dynamic_passed |-> FALSE, dynamic_axes |-> <<>>]

\* the state before line 69, for a command line o and a weights file c
Start(o, c) ==
    /\ opt = o
    /\ argv = [img_size |-> o.img_size]
    /\ ckpt = c
    /\ pc = "parse"
    /\ err = "none"
    /\ model = NoModel
    /\ state_dict = EmptyMapping
    /\ y = "unset"
    /\ ts = "unbound"
    /\ results = <<>>
    /\ files = {}
    /\ log = <<>>
    /\ onnx_call = NoCall

Init == \E o \in Opts : \E c \in Ckpts : Start(o, c)

----------------------------------------------------------------------------
(* Exceptions outside the three try blocks are not caught: the script ends *)

\* variant: the dry run is wrapped in a try block like the exports
FatalPc_continue(e) == IF e = "DryRunError" THEN "torchscript" ELSE "error"

FatalPc(e) == "error"

Raise(e) ==
    /\ pc' = FatalPc(e)
    /\ err' = e

----------------------------------------------------------------------------
(* load_model, export.py:29-55 *)

\* line 32: isinstance(ckpt['model'], nn.Module)
is_picked_model(c) == c.kind = "module"

\* the architecture config embedded in the checkpoint is the .yaml of the
\* packaged module; a raw weight mapping carries none
HasEmbeddedConfig(c) == is_picked_model(c)

\* variant of line 34 that forgets the is_picked_model test
NoModuleNoCfg_nocfg(c, o) == ~o.cfg.given

\* line 34: not is_picked_model and not opt.cfg
NoModuleNoCfg(c, o) == ~is_picked_model(c) /\ ~o.cfg.given

\* line 37: is_picked_model and not opt.cfg
UsePackaged(c, o) == is_picked_model(c) /\ ~o.cfg.given

\* line 41: opt.cfg or ckpt['model'].yaml
ArchConfig(c, o) ==
    IF o.cfg.given THEN [from |-> "override", arch |-> o.cfg.arch, net |-> o.cfg.net]
    ELSE IF HasEmbeddedConfig(c)
         THEN [from |-> "embedded", net |-> c.net,
               arch |-> [n \in DOMAIN c.params |-> c.params[n].shape]]
         ELSE [from |-> "missing", arch |-> NoArch, net |-> NoNet]

\* line 38: the packaged module itself, in full precision
attempt_load(c) ==
    [params |-> Float(c.params), src |-> "packaged", rewritten |-> FALSE,
     net |-> c.net]

\* line 41: Model(cfg)
BuildModel(a) ==
    [params |-> FreshParams(a.arch), src |-> a.from, rewritten |-> FALSE,
     net |-> a.net]

\* line 42: the weight mapping on the config-built path
ResolvedStateDict(c) == IF is_picked_model(c) THEN Float(c.params) ELSE c.params

\* variant of line 45 that applies the recipe manager unconditionally
RecipeConfigured_always(o) == TRUE

\* line 45: if opt.sparseml_recipe
RecipeConfigured(o) == o.sparseml_recipe # ""

\* line 46: any([opt.grid, opt.dynamic])
RecipeConflict(o) == o.grid \/ o.dynamic

\* parameters a recipe adds to the module when it is initialized: a
\* quantization recipe (enable_on_initialize, line 50) wraps layers with
\* quantization observers that carry their own state entries
RecipeAdds(r) == IF r = "quant.yaml" THEN QuantNames ELSE {}

\* line 51: manager.initialize(model, None)
Initialize(m, r) ==
    [m EXCEPT !.params = m.params @@
                  [n \in RecipeAdds(r) \ DOMAIN m.params |-> Tensor(0, 1, "float")],
              !.rewritten = TRUE]

\* variant of line 53 with strict=False: missing and unexpected keys pass
StrictLoadOk_lenient(m, sd) ==
    \A n \in DOMAIN m \cap DOMAIN sd : m[n].shape = sd[n].shape

\* variant of line 53 that compares the key sets only
StrictLoadOk_keysonly(m, sd) == DOMAIN m = DOMAIN sd

\* line 53, strict=True: the key sets agree and every shape matches
StrictLoadOk(m, sd) ==
    /\ DOMAIN m = DOMAIN sd
    /\ \A n \in DOMAIN m : m[n].shape = sd[n].shape

\* line 53: load_state_dict copies every matching entry into the module
\* (also the entries that match when it goes on to raise)
Loaded(m, sd) ==
    [n \in DOMAIN m |->
        IF n \in DOMAIN sd /\ sd[n].shape = m[n].shape
        THEN [m[n] EXCEPT !.val = sd[n].val]
        ELSE m[n]]

\* variant of line 69 without the length test: opt.img_size *= 2
Expand_always(size) == size \o size

\* line 69: opt.img_size *= 2 if len(opt.img_size) == 1 else 1
Expand(size) == IF Len(size) = 1 THEN size \o size ELSE size

\* lines 68-72
ParseArgs ==
    /\ pc = "parse"
    /\ opt' = [opt EXCEPT !.img_size = Expand(opt.img_size)]
    /\ pc' = "download"
    /\ UNCHANGED <<argv, ckpt, err, model, state_dict, y, ts, results, files, log,
                   onnx_call>>

\* line 30
AttemptDownload ==
    /\ pc = "download"
    /\ log' = Append(log, "download")
    /\ \E ok \in BOOLEAN :
         IF ok THEN pc' = "torch_load" /\ err' = err
               ELSE Raise("DownloadError")
    /\ UNCHANGED <<argv, opt, ckpt, model, state_dict, y, ts, results, files, onnx_call>>

\* lines 31-32
TorchLoad ==
    /\ pc = "torch_load"
    /\ log' = Append(log, "deserialize")
    /\ \E ok \in BOOLEAN :
         IF ok THEN pc' = "classify" /\ err' = err
               ELSE Raise("DeserializeError")
    /\ UNCHANGED <<argv, opt, ckpt, model, state_dict, y, ts, results, files, onnx_call>>

\* lines 34-42
Classify ==
    /\ pc = "classify"
    /\ IF NoModuleNoCfg(ckpt, opt)
       THEN /\ Raise("NoModuleNoCfg")
            /\ UNCHANGED <<model, state_dict, log>>
       ELSE IF UsePackaged(ckpt, opt)
       THEN \E ok \in BOOLEAN :
              IF ok
              THEN /\ model' = attempt_load(ckpt)
                   /\ state_dict' = attempt_load(ckpt).params
                   /\ log' = log \o <<"deserialize", "instantiate">>
                   /\ pc' = "recipe" /\ err' = err
              ELSE /\ Raise("AttemptLoadError")
                   /\ log' = log \o <<"deserialize">>
                   /\ UNCHANGED <<model, state_dict>>
       ELSE \E ok \in BOOLEAN :
              IF ok /\ ArchConfig(ckpt, opt).from # "missing"
              THEN /\ model' = BuildModel(ArchConfig(ckpt, opt))
                   /\ state_dict' = ResolvedStateDict(ckpt)
                   /\ log' = log \o <<"instantiate">>
                   /\ pc' = "recipe" /\ err' = err
              ELSE /\ Raise("ModelBuildError")
                   /\ UNCHANGED <<model, state_dict, log>>
    /\ UNCHANGED <<argv, opt, ckpt, y, ts, results, files, onnx_call>>

\* lines 45-51
ApplyRecipe ==
    /\ pc = "recipe"
    /\ IF ~RecipeConfigured(opt)
       THEN /\ pc' = "load_state_dict" /\ err' = err
            /\ UNCHANGED <<model, log>>
       ELSE IF RecipeConflict(opt)
       THEN /\ Raise("RecipeConflict")
            /\ UNCHANGED <<model, log>>
       ELSE \E ok \in BOOLEAN :
              IF ok
              THEN /\ model' = Initialize(model, opt.sparseml_recipe)
                   /\ log' = log \o <<"recipe_read", "rewrite">>
                   /\ pc' = "load_state_dict" /\ err' = err
              ELSE /\ Raise("RecipeReadError")
                   /\ log' = log \o <<"recipe_read">>
                   /\ UNCHANGED model
    /\ UNCHANGED <<argv, opt, ckpt, state_dict, y, ts, results, files, onnx_call>>

\* lines 53-55
LoadStateDict ==
    /\ pc = "load_state_dict"
    /\ log' = Append(log, "load_weights")
    /\ IF StrictLoadOk(model.params, state_dict)
       THEN /\ model' = [model EXCEPT !.params = Float(Loaded(model.params, state_dict))]
            /\ pc' = "checks" /\ err' = err
       ELSE /\ model' = [model EXCEPT !.params = Loaded(model.params, state_dict)]
            /\ Raise("WeightMismatch")
    /\ UNCHANGED <<argv, opt, ckpt, state_dict, y, ts, results, files, onnx_call>>

----------------------------------------------------------------------------
(* __main__, export.py:74-97: checks, export-mode update, dry run *)

\* line 80: gs = int(max(model.stride))
GridSize(m) == m.net.stride

\* utils.general.check_img_size: the size itself if it is a multiple of the
\* grid size, else the next multiple
check_img_size(x, gs) == ((x + gs - 1) \div gs) * gs

\* line 81: [check_img_size(x, gs) for x in opt.img_size]
VerifySizes(size, gs) == [i \in DOMAIN size |-> check_img_size(size[i], gs)]

\* lines 77-84: labels, grid size, image size check, sample input
Checks ==
    /\ pc = "checks"
    /\ opt' = [opt EXCEPT !.img_size = VerifySizes(opt.img_size, GridSize(model))]
    /\ pc' = "update"
    /\ UNCHANGED <<argv, ckpt, err, model, state_dict, y, ts, results, files, log,
                   onnx_call>>

\* line 88: m._non_persistent_buffers_set = set()
ResetBuffers(m) == [m EXCEPT !.npb_reset = TRUE]

\* variant of lines 89-93 without the nn.SiLU case
Substitute_hardswish_only(m) ==
    IF m.type = "Conv" /\ m.act = "nn.Hardswish" THEN [m EXCEPT !.act = "Hardswish"]
    ELSE m

\* lines 89-93: a Conv module gets the export-friendly activation
Substitute(m) ==
    IF m.type = "Conv"
    THEN IF m.act = "nn.Hardswish" THEN [m EXCEPT !.act = "Hardswish"]
         ELSE IF m.act = "nn.SiLU" THEN [m EXCEPT !.act = "SiLU"]
         ELSE m
    ELSE m

\* variant of line 96 without the negation
ExportFlag_plain(o) == o.grid

\* line 96: model.model[-1].export = not opt.grid
ExportFlag(o) == ~o.grid

\* line 96: the flag is set on the last module
SetExport(mods, flag) == [mods EXCEPT ![Len(mods)].export = flag]

\* models.yolo.Detect, from the output-mode toggle of the specification: the
\* head gives grid output when --grid was given, and line 96 clears the
\* attribute in that case
HeadMode(m) == IF m.export THEN "decoded" ELSE "grid"

\* lines 87-96
UpdateModel ==
    /\ pc = "update"
    /\ model' = [model EXCEPT !.net.modules =
                    SetExport([i \in DOMAIN @ |-> Substitute(ResetBuffers(@[i]))],
                              ExportFlag(opt))]
    /\ log' = log \o <<"update_modules", "set_export">>
    /\ pc' = "dry_run"
    /\ UNCHANGED <<argv, opt, ckpt, err, state_dict, y, ts, results, files, onnx_call>>

\* what model(img) can return
DryRunResults == {"None", "Tensor", "Pair"}

\* line 97: y = model(img)
DryRun ==
    /\ pc = "dry_run"
    /\ log' = Append(log, "dry_run")
    /\ \E r \in DryRunResults \cup {"raise"} :
         IF r = "raise"
         THEN Raise("DryRunError") /\ y' = y
         ELSE y' = r /\ pc' = "torchscript" /\ err' = err
    /\ UNCHANGED <<argv, opt, ckpt, model, state_dict, ts, results, files, onnx_call>>

----------------------------------------------------------------------------
(* The three export blocks, export.py:99-149.  Each is one try block whose  *)
(* except clause prints the failure; fp is the statement that raised, or    *)
(* "none".                                                                  *)

Backends == <<"TorchScript", "ONNX", "CoreML">>

\* str.replace('.pt', ext): every occurrence of '.pt' is replaced
Replace(p, ext) == [i \in DOMAIN p |-> IF p[i] = ".pt" THEN ext ELSE p[i]]

\* line 102: f = opt.weights.replace('.pt', '.torchscript.pt')
TorchScriptFile(w) == Replace(w, ".torchscript.pt")

\* line 114: f = opt.weights.replace('.pt', '.onnx')
OnnxFile(w) == Replace(w, ".onnx")

\* line 145: f = opt.weights.replace('.pt', '.mlmodel')
CoreMLFile(w) == Replace(w, ".mlmodel")

\* position of the last "/" of a path, 0 if it has none
LastSlash(p) ==
    IF \E i \in DOMAIN p : p[i] = "/"
    THEN CHOOSE i \in DOMAIN p : p[i] = "/" /\ \A j \in DOMAIN p : p[j] = "/" => j <= i
    ELSE 0

\* line 121: save_dir = "/".join(f.split("/")[:-1])
SaveDir(f) == SubSeq(f, 1, LastSlash(f) - 1)

\* line 122: save_name = f.split("/")[-1]
SaveName(f) == SubSeq(f, LastSlash(f) + 1, Len(f))

\* lines 123-124: ModuleExporter(model, save_dir).export_onnx(img, convert_qat=True)
\* is given no file name and writes its default, model.onnx, in save_dir
ExporterFile(f) ==
    IF SaveDir(f) = <<>> THEN <<"model", ".onnx">>
    ELSE SaveDir(f) \o <<"/", "model", ".onnx">>

\* a file access of an export block
Write(b, p) == [op |-> "write", by |-> b, path |-> p]
Read(b, p) == [op |-> "read", by |-> b, path |-> p]

\* variant in which the ONNX block prints success before the file is loaded
\* back and checked (the print of line 133 moved before line 131)
Result_unvalidated(b, fp, f) ==
    [backend |-> b,
     status |-> IF fp \in {"none", "load", "check"} THEN "success" ELSE "failure",
     detail |-> IF fp \in {"none", "load", "check"} THEN f ELSE fp]

\* the line a try block prints: success with the file name, or failure with
\* the exception
Result(b, fp, f) ==
    [backend |-> b,
     status |-> IF fp = "none" THEN "success" ELSE "failure",
     detail |-> IF fp = "none" THEN f ELSE fp]

\* variant in which a failed ONNX export ends the sequence
AfterBackend_stop(b, fp) ==
    CASE b = "TorchScript" -> "onnx"
      [] b = "ONNX" -> IF fp = "none" THEN "coreml" ELSE "finish"
      [] b = "CoreML" -> "finish"

\* variant in which the ONNX block does not catch a failed model check
AfterBackend_escape(b, fp) ==
    CASE b = "TorchScript" -> "onnx"
      [] b = "ONNX" -> IF fp = "check" THEN "error" ELSE "coreml"
      [] b = "CoreML" -> "finish"

\* `except Exception as e: print(...)` (lines 106, 135, 148): whatever the
\* try block raised, the script goes on with the statement after the block
AfterBackend(b, fp) ==
    CASE b = "TorchScript" -> "onnx"
      [] b = "ONNX" -> "coreml"
      [] b = "CoreML" -> "finish"

\* lines 99-107
TorchScriptExport ==
    /\ pc = "torchscript"
    /\ \E fp \in {"trace", "save", "none"} :
         /\ log' = log \o (IF fp = "trace" THEN <<"ts_start", "trace">>
                                           ELSE <<"ts_start", "trace", "ts_save">>)
         /\ ts' = IF fp = "trace" THEN ts ELSE "traced"
         /\ files' = IF fp = "none"
                     THEN files \cup {Write("TorchScript", TorchScriptFile(opt.weights))}
                     ELSE files
         /\ results' = Append(results, Result("TorchScript", fp, "torchscript"))
         /\ pc' = AfterBackend("TorchScript", fp)
    /\ UNCHANGED <<argv, opt, ckpt, err, model, state_dict, y, onnx_call>>

\* line 117: output_names
output_names(yy) == IF yy = "None" THEN <<"classes", "boxes">> ELSE <<"output">>

\* lines 118-119: dynamic_axes
dynamic_axes(o) ==
    IF o.dynamic
    THEN [passed |-> TRUE,
          axes |-> ("images" :> (0 :> "batch" @@ 2 :> "height" @@ 3 :> "width"))
                   @@ ("output" :> (0 :> "batch" @@ 2 :> "y" @@ 3 :> "x"))]
    ELSE [passed |-> FALSE, axes |-> <<>>]

\* lines 116-119: the arguments of torch.onnx.export
OnnxArgs(o, yy) ==
    [called |-> TRUE,
     input_names |-> <<"images">>,
     output_names |-> output_names(yy),
     dynamic_passed |-> dynamic_axes(o).passed,
     dynamic_axes |-> dynamic_axes(o).axes]

\* line 115: the standard path is taken when no recipe is configured
StandardOnnx(o) == ~RecipeConfigured(o)

\* calls made by the ONNX block up to the statement that raised; ppfail tells
\* whether skip_onnx_input_quantize raised
OnnxSteps(o, fp, ppfail) ==
    <<"onnx_start">>
    \o (IF fp = "import" THEN <<>>
        ELSE (IF StandardOnnx(o) THEN <<"onnx_export">> ELSE <<"qat_export">>)
          \o (IF fp = "export" THEN <<>>
              ELSE (IF StandardOnnx(o) THEN <<>>
                    ELSE IF ppfail THEN <<"post_pass", "post_pass_raised">>
                    ELSE <<"post_pass">>)
                \o (IF fp = "load" THEN <<"onnx_load", "onnx_load_raised">>
                    ELSE IF fp = "check"
                    THEN <<"onnx_load", "onnx_check", "onnx_check_raised">>
                    ELSE <<"onnx_load", "onnx_check">>)))

\* files the ONNX block wrote and read back: the export writes f (standard
\* path) or the exporter's own file; skip_onnx_input_quantize(f, f) rewrites
\* f when it does not raise; onnx.load(f) reads f
OnnxFiles(o, fp, ppfail) ==
    LET f == OnnxFile(o.weights) IN
    IF fp \in {"import", "export"} THEN {}
    ELSE (IF StandardOnnx(o) THEN {Write("ONNX", f)}
          ELSE {Write("ONNX", ExporterFile(f))}
                 \cup (IF ppfail THEN {} ELSE {Write("ONNX", f)}))
         \cup {Read("ONNX", f)}

\* variant of lines 125-128 without the inner try: the post-pass failure
\* reaches the outer except clause
OnnxFailure_propagate(fp, ppfail) == IF ppfail THEN "post_pass" ELSE fp

\* lines 125-128: `except: pass` swallows whatever skip_onnx_input_quantize
\* raised; the block fails only at the statement fp
OnnxFailure(fp, ppfail) == fp

\* lines 109-136
OnnxExport ==
    /\ pc = "onnx"
    /\ \E fp \in {"import", "export", "load", "check", "none"} :
       \E ppfail \in BOOLEAN :
         /\ ppfail => (~StandardOnnx(opt) /\ fp \notin {"import", "export"})
         /\ log' = log \o OnnxSteps(opt, fp, ppfail)
         /\ onnx_call' = IF StandardOnnx(opt) /\ fp # "import"
                         THEN OnnxArgs(opt, y) ELSE onnx_call
         /\ files' = files \cup OnnxFiles(opt, fp, ppfail)
         /\ results' = Append(results, Result("ONNX", OnnxFailure(fp, ppfail), "onnx"))
         /\ pc' = AfterBackend("ONNX", OnnxFailure(fp, ppfail))
    /\ UNCHANGED <<argv, opt, ckpt, err, model, state_dict, y, ts>>

\* line 144: evaluating `ts` raises NameError when the trace never bound it
CoreMLFailure(fp, t) ==
    IF fp = "import" THEN "import"
    ELSE IF t = "unbound" THEN "ts_unbound"
    ELSE fp

\* lines 138-149
CoreMLExport ==
    /\ pc = "coreml"
    /\ \E fp \in {"import", "convert", "save", "none"} :
         LET f == CoreMLFailure(fp, ts) IN
         /\ log' = log \o <<"coreml_start">>
                       \o (IF f \in {"import", "ts_unbound"} THEN <<>>
                           ELSE IF f = "convert" THEN <<"ct_convert">>
                           ELSE <<"ct_convert", "ml_save">>)
         /\ files' = IF f = "none"
                     THEN files \cup {Write("CoreML", CoreMLFile(opt.weights))}
                     ELSE files
         /\ results' = Append(results, Result("CoreML", f, "mlmodel"))
         /\ pc' = AfterBackend("CoreML", f)
    /\ UNCHANGED <<argv, opt, ckpt, err, model, state_dict, y, ts, onnx_call>>

\* line 152: 'Export complete'
Finish ==
    /\ pc = "finish"
    /\ log' = Append(log, "complete")
    /\ pc' = "done"
    /\ UNCHANGED <<argv, opt, ckpt, err, model, state_dict, y, ts, results, files, onnx_call>>

----------------------------------------------------------------------------

Next ==
    \/ ParseArgs
    \/ AttemptDownload
    \/ TorchLoad
    \/ Classify
    \/ ApplyRecipe
    \/ LoadStateDict
    \/ Checks
    \/ UpdateModel
    \/ DryRun
    \/ TorchScriptExport
    \/ OnnxExport
    \/ CoreMLExport
    \/ Finish

Spec == Init /\ [][Next]_vars

----------------------------------------------------------------------------
(* The same script over other inputs: one packaged checkpoint and the       *)
(* default options, with the weights path, the image size or the module     *)
(* list drawn from all bounded values.                                      *)

DefaultCkpt ==
    [kind |-> "module",
     params |-> [n \in ParamNames |-> Tensor(1, 1, "half")],
     net |-> DefaultNet]

DefaultOpt ==
    [weights |-> DefaultWeights,
     img_size |-> DefaultImgSize,
     cfg |-> [given |-> FALSE, arch |-> NoArch, net |-> NoNet],
     sparseml_recipe |-> "",
     grid |-> FALSE,
     dynamic |-> FALSE]

\* every weights path, with and without a recipe
PathInit ==
    \E w \in Paths : \E r \in {"", "prune.yaml"} :
        Start([DefaultOpt EXCEPT !.weights = w, !.sparseml_recipe = r], DefaultCkpt)

PathSpec == PathInit /\ [][Next]_vars

\* every image size, for every grid size of the model
ImgInit ==
    \E size \in ImgSizes : \E gs \in 1..MaxStride :
        Start([DefaultOpt EXCEPT !.img_size = size],
              [DefaultCkpt EXCEPT !.net.stride = gs])

ImgSpec == ImgInit /\ [][Next]_vars

\* every module list, with and without --grid
ModInit ==
    \E mods \in ModuleLists : \E g \in BOOLEAN :
        Start([DefaultOpt EXCEPT !.grid = g],
              [DefaultCkpt EXCEPT !.net.modules = mods])

ModSpec == ModInit /\ [][Next]_vars

----------------------------------------------------------------------------
(* Properties *)

Range(q) == {q[i] : i \in DOMAIN q}

SequencerPcs == {"torchscript", "onnx", "coreml", "finish", "done"}

RecipeGiven == opt.sparseml_recipe # ""

Packaged == ckpt.kind = "module"

IsStart(e) == e \in {"ts_start", "onnx_start", "coreml_start"}

\* the export blocks entered so far, in order
Starts == SelectSeq(log, IsStart)

\* C1: a run that reaches the export blocks prints exactly one outcome per
\* backend, in the order TorchScript, ONNX, CoreML; each block is entered
\* exactly once and in that order, whatever the earlier blocks printed.
C1_OneOutcomePerBackendInOrder ==
    /\ Len(results) <= 3
    /\ \A i \in DOMAIN results :
         results[i].backend = Backends[i] /\ results[i].status \in {"success", "failure"}
    /\ pc = "torchscript" => Len(results) = 0 /\ Starts = <<>>
    /\ pc = "onnx" => Len(results) = 1 /\ Starts = <<"ts_start">>
    /\ pc = "coreml" => Len(results) = 2 /\ Starts = <<"ts_start", "onnx_start">>
    /\ pc \in {"finish", "done"} =>
         /\ Len(results) = 3
         /\ Starts = <<"ts_start", "onnx_start", "coreml_start">>
    /\ Starts # <<>> => pc \in SequencerPcs \ {"torchscript"}

C1_Witness ==
    /\ pc = "done"
    /\ results[1].status = "failure"
    /\ results[2].status = "failure"
    /\ InLog("coreml_start")

\* C2: whenever the TorchScript export was reported failed, ct.convert is never
\* called and CoreML is reported failed because the trace is missing (or, before
\* that is noticed, because coremltools itself is missing); ct.convert is called
\* only when TorchScript was reported successful.
C2_CoreMLSkippedWhenTorchScriptFailed ==
    /\ (Len(results) = 3 /\ results[1].status = "failure") =>
          /\ ~InLog("ct_convert")
          /\ results[3].status = "failure"
          /\ results[3].detail \in {"ts_unbound", "import"}
    /\ InLog("ct_convert") => results[1].status = "success"

\* C3: when load_model raises the recipe / grid / dynamic error, nothing was
\* downloaded, deserialized or read and no model was instantiated before.
C3_RecipeConflictBeforeAnyIO ==
    err = "RecipeConflict" =>
        /\ ~InLog("download")
        /\ ~InLog("deserialize")
        /\ ~InLog("recipe_read")
        /\ ~InLog("instantiate")
        /\ model = NoModel

FatalErrors ==
    {"DownloadError", "DeserializeError", "NoModuleNoCfg", "AttemptLoadError",
     "ModelBuildError", "RecipeConflict", "RecipeReadError", "WeightMismatch",
     "DryRunError"}

\* C4: an error in checkpoint resolution, the recipe precondition, the strict
\* load or the dry run ends the run there: no export block was entered, nothing
\* was printed for a backend, no artifact was written, and no step follows.
C4_FatalBeforeAnyBackend ==
    /\ err # "none" =>
          /\ pc = "error"
          /\ err \in FatalErrors
          /\ results = <<>>
          /\ files = {}
          /\ ~InLog("ts_start") /\ ~InLog("onnx_start") /\ ~InLog("coreml_start")
          /\ ~ENABLED Next
    /\ pc = "error" => err # "none"

C4_Witness ==
    /\ pc = "error"
    /\ err = "DryRunError"
    /\ InLog("dry_run")

\* C5: once load_model and the dry run have succeeded no error escapes: the
\* script is in one of the export blocks or past them, it can always take its
\* next step until 'Export complete' has been printed, and by then the three
\* outcomes have been printed.
C5_RunsToCompletion ==
    (pc = "torchscript" \/ InLog("ts_start")) =>
        /\ err = "none"
        /\ pc \in SequencerPcs
        /\ pc # "done" => ENABLED Next
        /\ pc = "done" => InLog("complete") /\ Len(results) = 3

C5_Witness ==
    /\ pc = "done"
    /\ InLog("complete")
    /\ results[1].detail = "save"
    /\ results[2].detail = "check"
    /\ results[3].detail = "convert"

\* C6: in the torch.onnx.export call the output names follow the arity of the
\* dry-run result: <<"output">> for a single tensor, <<"classes", "boxes">> for
\* a pair.
C6_OutputNamesByArity ==
    onnx_call.called =>
        /\ y = "Tensor" => onnx_call.output_names = <<"output">>
        /\ y = "Pair" => onnx_call.output_names = <<"classes", "boxes">>

\* the dimensions bound for a tensor
BoundDims == {0, 2, 3}

\* C7: in the torch.onnx.export call dynamic axes are passed exactly when
\* --dynamic is set; when passed, every key of the map is a declared input or
\* output name, and the input and every declared output have their batch,
\* height and width dimensions bound.
C7_DynamicAxesBindDeclaredNames ==
    onnx_call.called =>
        /\ onnx_call.dynamic_passed <=> opt.dynamic
        /\ onnx_call.dynamic_passed =>
             /\ DOMAIN onnx_call.dynamic_axes \subseteq
                    Range(onnx_call.input_names) \cup Range(onnx_call.output_names)
             /\ \A n \in Range(onnx_call.input_names) \cup Range(onnx_call.output_names) :
                    /\ n \in DOMAIN onnx_call.dynamic_axes
                    /\ DOMAIN onnx_call.dynamic_axes[n] = BoundDims

PastClassify ==
    /\ pc \notin {"parse", "download", "torch_load", "classify"}
    /\ err \notin {"DownloadError", "DeserializeError"}

\* C8: once the checkpoint is classified: the missing-config error was raised
\* exactly when the checkpoint holds no packaged module and there is neither an
\* override config nor an embedded one; a packaged module without override is
\* used as it is; in every other case the model is built fresh from the
\* override config, or else from the embedded one, with that config's
\* parameters.
C8_CheckpointClassification ==
    PastClassify =>
        /\ err = "NoModuleNoCfg" <=>
              (~Packaged /\ ~opt.cfg.given /\ ~HasEmbeddedConfig(ckpt))
        /\ (Packaged /\ ~opt.cfg.given) =>
              (err = "AttemptLoadError" \/ model.src = "packaged")
        /\ (~(Packaged /\ ~opt.cfg.given) /\ err \notin {"NoModuleNoCfg", "ModelBuildError"}) =>
              /\ model.src = (IF opt.cfg.given THEN "override" ELSE "embedded")
              /\ opt.cfg.given =>
                   /\ DOMAIN opt.cfg.arch \subseteq DOMAIN model.params
                   /\ \A n \in DOMAIN opt.cfg.arch : model.params[n].shape = opt.cfg.arch[n]

C8_Witness ==
    /\ pc = "recipe"
    /\ Packaged
    /\ opt.cfg.given
    /\ model.src = "override"

\* the parameter names of the model as it was instantiated
InstantiatedNames ==
    IF model.src = "packaged" THEN DOMAIN ckpt.params ELSE DOMAIN opt.cfg.arch

\* load_model has returned its model (the strict load was made and did not raise)
Returned == InLog("load_weights") /\ err # "WeightMismatch"

\* C9: the recipe is applied exactly when one is configured, once, and before
\* the strict load, on the packaged and on the config-built path; the model
\* load_model returns holds the values of the resolved weight mapping; without a
\* recipe the model keeps the parameters it was instantiated with.
C9_RecipeBeforeStrictLoad ==
    /\ model.rewritten <=> InLog("rewrite")
    /\ model.rewritten => RecipeGiven
    /\ InLog("load_weights") =>
          /\ RecipeGiven <=> InLog("rewrite")
          /\ SelectSeq(log, LAMBDA e : e \in {"rewrite", "load_weights"})
                = (IF RecipeGiven THEN <<"rewrite", "load_weights">>
                                  ELSE <<"load_weights">>)
    /\ Returned =>
          /\ DOMAIN model.params = DOMAIN state_dict
          /\ \A n \in DOMAIN state_dict : model.params[n].val = state_dict[n].val
    /\ (~RecipeGiven /\ model.src # "none") => DOMAIN model.params = InstantiatedNames

C9_Witness ==
    /\ pc = "checks"
    /\ opt.sparseml_recipe = "quant.yaml"
    /\ model.src = "override"
    /\ model.rewritten
    /\ QuantNames \subseteq DOMAIN model.params

ExactCorrespondence ==
    /\ DOMAIN model.params = DOMAIN state_dict
    /\ \A n \in DOMAIN model.params : model.params[n].shape = state_dict[n].shape

\* C11: once the strict load was made, load_model returned exactly when every
\* parameter name of the model is in the weight mapping with the same shape
\* (and no name is left over); then every value is the mapping's.  Otherwise
\* the run ended with the weight mismatch, whatever part did match, on the
\* packaged and the config-built path, with or without a recipe.
C11_StrictLoadAllOrNothing ==
    InLog("load_weights") =>
        /\ Returned <=> ExactCorrespondence
        /\ Returned =>
              \A n \in DOMAIN model.params : model.params[n].val = state_dict[n].val
        /\ ~Returned => pc = "error" /\ err = "WeightMismatch"

\* one parameter matched and was copied, another has the wrong shape
C11_Witness ==
    /\ err = "WeightMismatch"
    /\ model.src = "override"
    /\ DOMAIN model.params = DOMAIN state_dict
    /\ \E n \in DOMAIN model.params :
          model.params[n].shape = state_dict[n].shape /\ model.params[n].val # 0
    /\ \E n \in DOMAIN model.params : model.params[n].shape # state_dict[n].shape

----------------------------------------------------------------------------

IsOnnxVerify(e) ==
    e \in {"onnx_load", "onnx_load_raised", "onnx_check", "onnx_check_raised"}

\* the reload and validation steps of the ONNX block, with their failures
OnnxVerify == SelectSeq(log, IsOnnxVerify)

OnnxSerialized == InLog("onnx_export") \/ InLog("qat_export")

\* C12: ONNX is reported successful only if, after the serializer of either
\* path returned, the file named <weights with .pt replaced by .onnx> was
\* loaded back and passed onnx.checker in this run; when the reload or the
\* check raises, ONNX is reported failed although the serializer returned.
C12_OnnxSuccessOnlyAfterReloadAndCheck ==
    Len(results) >= 2 =>
        /\ results[2].status = "success" =>
              /\ OnnxSerialized
              /\ OnnxVerify = <<"onnx_load", "onnx_check">>
              /\ Read("ONNX", OnnxFile(opt.weights)) \in files
        /\ (InLog("onnx_load_raised") \/ InLog("onnx_check_raised")) =>
              /\ OnnxSerialized
              /\ results[2].status = "failure"
              /\ results[2].detail \in {"load", "check"}

C12_Witness ==
    /\ Len(results) >= 2
    /\ InLog("qat_export")
    /\ InLog("onnx_check_raised")
    /\ results[2].status = "failure"

\* the weights path without its trailing .pt
Stem(w) == IF w[Len(w)] = ".pt" THEN SubSeq(w, 1, Len(w) - 1) ELSE w

Extension(b) ==
    CASE b = "TorchScript" -> ".torchscript.pt"
      [] b = "ONNX" -> ".onnx"
      [] b = "CoreML" -> ".mlmodel"

\* C13: every file a backend writes is <stem> followed by the backend's
\* extension (.torchscript.pt, .onnx on both ONNX paths, .mlmodel), where
\* <stem> is the weights path without its trailing .pt.
C13_ArtifactsAtDerivedPaths ==
    \A a \in files :
        a.op = "write" => a.path = Stem(opt.weights) \o <<Extension(a.by)>>

\* the image size of the command line after the expansion of a single integer
Expanded ==
    IF Len(argv.img_size) = 1 THEN <<argv.img_size[1], argv.img_size[1]>>
    ELSE argv.img_size

\* the grid-multiple check has run
Validated == pc = "update" \/ InLog("update_modules")

\* C14: an image size given as one integer n is the pair (n, n), and a size
\* given as two integers is that pair, from the expansion until the
\* grid-multiple check runs; the check then puts each of the two elements at
\* the nearest multiple of the grid size not below the element given.
C14_ImgSizeExpandedBeforeValidation ==
    Len(argv.img_size) \in {1, 2} =>
        /\ (pc # "parse" /\ ~Validated) => opt.img_size = Expanded
        /\ pc = "checks" => Len(opt.img_size) = 2
        /\ Validated =>
              /\ Len(opt.img_size) = 2
              /\ \A i \in 1..2 :
                    /\ opt.img_size[i] % GridSize(model) = 0
                    /\ opt.img_size[i] >= Expanded[i]
                    /\ opt.img_size[i] < Expanded[i] + GridSize(model)

C14_Witness ==
    /\ Validated
    /\ Len(argv.img_size) = 1
    /\ argv.img_size[1] % GridSize(model) # 0
    /\ opt.img_size = <<argv.img_size[1] + 1, argv.img_size[1] + 1>>

\* C15: on the quantization-aware path, when skip_onnx_input_quantize raised,
\* the ONNX block went on to load and check the file, the script went on to
\* the next block, and ONNX is reported successful exactly when neither the
\* load nor the check raised, as it is when the post-pass did not raise.
C15_PostPassFailureSwallowed ==
    (Len(results) >= 2 /\ InLog("post_pass")) =>
        /\ InLog("qat_export")
        /\ InLog("onnx_load")
        /\ results[2].detail \in {"onnx", "load", "check"}
        /\ results[2].status = "success" <=> OnnxVerify = <<"onnx_load", "onnx_check">>
        /\ pc \in {"coreml", "finish", "done"}
        /\ err = "none"

C15_Witness ==
    /\ InLog("post_pass_raised")
    /\ Len(results) >= 2
    /\ results[2].status = "success"

\* the modules as load_model returned them
OrigModules ==
    IF model.src = "override" THEN opt.cfg.net.modules ELSE ckpt.net.modules

ReferenceActivations == {"nn.Hardswish", "nn.SiLU"}

\* the export-friendly implementation of a reference activation
Friendly(a) ==
    IF a = "nn.Hardswish" THEN "Hardswish"
    ELSE IF a = "nn.SiLU" THEN "SiLU"
    ELSE a

Updated == InLog("update_modules")

\* C16 as stated: after the update no module holds a reference hard-swish or
\* SiLU, whatever its type: each one was replaced by the export-friendly
\* implementation, and every other activation is unchanged.
C16_NoReferenceActivationLeft ==
    Updated =>
        \A i \in DOMAIN model.net.modules :
            /\ model.net.modules[i].act \notin ReferenceActivations
            /\ model.net.modules[i].act = Friendly(OrigModules[i].act)

\* C16 amended: after the update every Conv module that held a reference
\* hard-swish or SiLU holds the export-friendly implementation; modules of
\* any other type keep their activation, reference or not, and Conv modules
\* with any other activation are unchanged; no module changes its type.
C16_ConvActivationsSubstituted ==
    Updated =>
        /\ DOMAIN model.net.modules = DOMAIN OrigModules
        /\ \A i \in DOMAIN model.net.modules :
              /\ model.net.modules[i].type = OrigModules[i].type
              /\ model.net.modules[i].act =
                    IF OrigModules[i].type = "Conv" THEN Friendly(OrigModules[i].act)
                    ELSE OrigModules[i].act

C16_Witness ==
    /\ Updated
    /\ \E i \in DOMAIN model.net.modules :
          /\ OrigModules[i].type = "Conv" /\ OrigModules[i].act = "nn.SiLU"
          /\ model.net.modules[i].act = "SiLU"
    /\ \E i \in DOMAIN model.net.modules :
          /\ model.net.modules[i].type = "Other"
          /\ model.net.modules[i].act = "nn.Hardswish"

IsUpdateStep(e) == e \in {"update_modules", "set_export", "dry_run"}

\* the module update, the setting of the head's flag and the dry run, in the
\* order they happened
UpdateSteps == SelectSeq(log, IsUpdateStep)

C18_WeightsFileNeverWritten ==
    \A a \in files : a.op = "write" => a.path # opt.weights

====
